---- MODULE Spec2Model ----
(***************************************************************************)
(* duat-hop: the Hopper mode (src/src/lib.rs).                             *)
(*                                                                         *)
(* Characters are their code points (97..122 are 'a'..'z').  A label is a  *)
(* sequence of characters.  Text positions are byte offsets, as in the     *)
(* Range<usize> values the search returns; a character of code point       *)
(* >= 128 takes more than one byte.                                        *)
(***************************************************************************)
EXTENDS Integers, Sequences, FiniteSets, TLC

VARIABLES
    regex,      \* Hopper.regex
    ranges,     \* Hopper.ranges: sequence of [start, end) byte ranges
    seq,        \* Hopper.seq: the characters typed so far
    text,       \* the buffer's text, a sequence of code points
    tags,       \* the text's tag store
    main,       \* the main (primary) selection of the buffer
    extras,     \* TRUE iff the buffer holds selections besides the main one
    errors,     \* number of context::error! reports in this session
    pc,         \* "idle", "awaiting", "exiting" (mode::reset requested), "exited"
    keys,       \* number of key events delivered to send_key in this session
    lastKey,    \* the last key event delivered to send_key
    resets,     \* number of mode::reset calls made by the last send_key
    moves,      \* number of move_to calls made in this session
    len,        \* key_seqs called on its own: the argument
    seqs,       \* key_seqs called on its own: the result
    sessions    \* number of times the mode has been entered, this one included

vars == <<regex, ranges, seq, text, tags, main, extras, errors, pc, keys,
          lastKey, resets, moves, len, seqs, sessions>>

-----------------------------------------------------------------------------
(* Bounds *)

\* Number of sessions of the mode that are followed, one after the other.
MaxSessions == 2

\* Largest argument of key_seqs when it is called on its own.
MaxLen == 80

\* Largest value of double = len / 26 that key_seqs is called with on its
\* own: beyond 26 the one-letter block is empty and the two-letter block
\* stops growing.
MaxDouble == 27

\* Largest number of words of a generated text.
MaxMatches == 78

\* Largest length (in characters) of an enumerated text.
MaxTextLen == 3

\* Largest length (in characters) of the enumerated last line of a text
\* that has two-letter labels.
MaxTailLen == 2

-----------------------------------------------------------------------------
(* Characters *)

\* '\n'
IsNewline(c) == c = 10

\* the regex class \s: tab, line feed, vertical tab, form feed, carriage
\* return, space
IsWhitespace(c) == c \in {9, 10, 11, 12, 13, 32}

Min(a, b) == IF a <= b THEN a ELSE b

\* static LETTERS: &str = "abcdefghijklmnopqrstuvwxyz"
LETTERS == [i \in 1..26 |-> 96 + i]

\* LETTERS.contains(char)
LettersContains(c) == \E i \in 1..Len(LETTERS) : LETTERS[i] = c

\* Iterator::skip and Iterator::take on a sequence
Skip(s, k) == IF k >= Len(s) THEN << >> ELSE SubSeq(s, k + 1, Len(s))
Take(s, k) == IF k >= Len(s) THEN s ELSE SubSeq(s, 1, k)

-----------------------------------------------------------------------------
(* key_seqs *)

Double_skew(n) == (n + 1) \div Len(LETTERS)

\* let double = len / LETTERS.len();
Double(n) == n \div Len(LETTERS)

OneChar_noskip(double) == [i \in 1..Len(LETTERS) |-> <<LETTERS[i]>>]

\* seqs.extend(LETTERS.chars().skip(double).map(char::into));
OneChar(double) ==
    LET rest == Skip(LETTERS, double)
    IN  [i \in 1..Len(rest) |-> <<rest[i]>>]

TwoChar_swapped(double) ==
    LET chars == Take(LETTERS, double)
        A == Len(LETTERS)
    IN  [j \in 1..(Len(chars) * A) |->
            <<LETTERS[((j - 1) % A) + 1], chars[((j - 1) \div A) + 1]>>]

\* let chars = LETTERS.chars().take(double);
\* seqs.extend(chars.flat_map(|c1| LETTERS.chars().map(move |c2| format!("{c1}{c2}"))));
TwoChar(double) ==
    LET chars == Take(LETTERS, double)
        A == Len(LETTERS)
    IN  [j \in 1..(Len(chars) * A) |->
            <<chars[((j - 1) \div A) + 1], LETTERS[((j - 1) % A) + 1]>>]

key_seqs(n) == OneChar(Double(n)) \o TwoChar(Double(n))

-----------------------------------------------------------------------------
(* The text: addressing and search *)

\* char::len_utf8
len_utf8(c) == IF c < 128 THEN 1 ELSE IF c < 2048 THEN 2 ELSE IF c < 65536 THEN 3 ELSE 4

\* Byte offset of every character of t (1-based character index), and of
\* the end of t at index Len(t) + 1.
\* (the sum of the widths of characters lo..hi, halving the interval)
RECURSIVE Width(_, _, _)
Width(t, lo, hi) ==
    IF lo > hi THEN 0
    ELSE IF lo = hi THEN len_utf8(t[lo])
    ELSE LET mid == (lo + hi) \div 2
         IN  Width(t, lo, mid) + Width(t, mid + 1, hi)

Offsets(t) == [i \in 1..(Len(t) + 1) |-> Width(t, 1, i - 1)]

\* text.char_at(b): the character that starts at byte b, 0 for None
char_at(t, off, b) ==
    IF \E i \in 1..Len(t) : off[i] = b
    THEN t[CHOOSE i \in 1..Len(t) : off[i] = b]
    ELSE 0

\* End (character index, exclusive) of the longest run of characters from i
\* on that are not newlines / not whitespace.
RunStops(t, j, ws) ==
    j > Len(t) \/ IsNewline(t[j]) \/ (ws /\ IsWhitespace(t[j]))

RunEnd(t, i, ws) ==
    CHOOSE j \in i..(Len(t) + 1) :
        RunStops(t, j, ws) /\ \A k \in i..(j - 1) : ~RunStops(t, k, ws)

\* End (character index, exclusive) of the match of the regex that starts
\* at character i, 0 when there is none:
\*   word   "[^\n\\s]+"        line   "[^\n\\s][^\n]+"        char   "[^\n]"
MatchEnd(re, t, i) ==
    CASE re = "word" ->
           IF ~IsNewline(t[i]) /\ ~IsWhitespace(t[i]) THEN RunEnd(t, i, TRUE) ELSE 0
      [] re = "line" ->
           IF /\ ~IsNewline(t[i]) /\ ~IsWhitespace(t[i])
              /\ i + 1 <= Len(t) /\ ~IsNewline(t[i + 1])
           THEN RunEnd(t, i + 1, FALSE)
           ELSE 0
      [] re = "char" ->
           IF ~IsNewline(t[i]) THEN i + 1 ELSE 0

\* text.search(regex).range(start..end).collect(): the leftmost,
\* non-overlapping matches in document order, as byte ranges.
\* One step of the scan at character i, on st = [acc, next]: the matches
\* found so far and the character the scan resumes at.
ScanStep(re, t, off, i, st) ==
    IF i < st.next THEN st
    ELSE LET e == MatchEnd(re, t, i)
         IN  IF e = 0 THEN st
             ELSE [acc  |-> Append(st.acc, [start |-> off[i], end |-> off[e]]),
                   next |-> e]

\* (the steps at characters lo..hi in order, halving the interval; the
\* steps of the upper half are all skipped when the scan resumes beyond it)
RECURSIVE Scan(_, _, _, _, _, _)
Scan(re, t, off, lo, hi, st) ==
    IF lo > hi THEN st
    ELSE IF lo = hi THEN ScanStep(re, t, off, lo, st)
    ELSE LET mid == (lo + hi) \div 2
             lower == Scan(re, t, off, lo, mid, st)
         IN  IF lower.next > hi THEN lower
             ELSE Scan(re, t, off, mid + 1, hi, lower)

Search(re, t, off) ==
    Scan(re, t, off, 1, Len(t), [acc |-> << >>, next |-> 1]).acc

-----------------------------------------------------------------------------
(* The tag store *)

CloakTag_asTagger(t, off) ==
    [tagger |-> "TAGGER", kind |-> "form", start |-> 0,
     end |-> off[Len(t) + 1], label |-> << >>]

\* text.insert_tag(*CLOAK_TAGGER, .., id.to_tag(101))
CloakTag(t, off) ==
    [tagger |-> "CLOAK_TAGGER", kind |-> "form", start |-> 0,
     end |-> off[Len(t) + 1], label |-> << >>]

\* text.insert_tag(*TAGGER, r.start, ghost)
GhostTag(r, label) ==
    [tagger |-> "TAGGER", kind |-> "ghost", start |-> r.start,
     end |-> r.start, label |-> label]

AdvanceChars_bytes(t, off, b, n) == b + n

\* r.start + chars.take(seq.len()).sum::<usize>(), with
\* chars = text[r.start..].chars().map(|c| c.len_utf8())
AdvanceChars(t, off, b, n) ==
    LET i == CHOOSE k \in 1..(Len(t) + 1) : off[k] = b
    IN  off[Min(i + n, Len(t) + 1)]

\* let seq_end = if r.end == r.start + 1 && let Some('\n') = text.char_at(r.end)
SeqEnd(t, off, r, label) ==
    IF r.end = r.start + 1 /\ IsNewline(char_at(t, off, r.end))
    THEN r.end
    ELSE AdvanceChars(t, off, r.start, Len(label))

\* text.insert_tag(*TAGGER, r.start..seq_end, Conceal)
ConcealTag(t, off, r, label) ==
    [tagger |-> "TAGGER", kind |-> "conceal", start |-> r.start,
     end |-> SeqEnd(t, off, r, label), label |-> << >>]

\* text.remove_tags(tagger, p): the tagger's tags that sit at p go, and a
\* range tag goes whole when either of its ends sits at p.
RemoveTagsAt(tg, tagger, p) ==
    {x \in tg : ~(x.tagger = tagger /\ (x.start = p \/ x.end = p))}

\* text.remove_tags(tagger, ..)
RemoveAllTags(tg, tagger) == {x \in tg : x.tagger # tagger}

\* A tag of some other tagger of the host, present before the mode is
\* entered.
OtherTag ==
    [tagger |-> "OTHER", kind |-> "form", start |-> 0, end |-> 1,
     label |-> << >>]

-----------------------------------------------------------------------------
(* Hopper *)

\* seqs.iter().zip(&self.ranges): the number of (label, range) pairs
ZipLen(labels, rs) == Min(Len(labels), Len(rs))

\* Key events: a plain character key, or any other key (Esc here).
Chars == {LETTERS[i] : i \in 1..Len(LETTERS)} \cup {49, 65}
KeyEvents ==
    {[code |-> "Char", c |-> c] : c \in Chars} \cup {[code |-> "Esc", c |-> 0]}
NoKey == [code |-> "None", c |-> 0]

\* The characters of the texts: 'x', e-acute (two bytes), ' ' and '\n'.
TextChars == {120, 233, 32, 10}

RECURSIVE SeqsOver(_, _)
SeqsOver(S, n) ==
    IF n = 0 THEN {<< >>}
    ELSE {Append(s, x) : s \in SeqsOver(S, n - 1), x \in S}

\* "x x ... x\n": n one-letter words on one line
WordsText(n) == [i \in 1..(2 * n) |-> IF i % 2 = 1 THEN 120 ELSE 32] \o <<10>>

\* "x x ... x \n" with 26 words, then a last line: with these the words of
\* the last line get two-letter labels.
TailText(tail) ==
    [i \in 1..(2 * Len(LETTERS)) |-> IF i % 2 = 1 THEN 120 ELSE 32]
        \o <<10>> \o tail \o <<10>>

Texts ==
    UNION {SeqsOver(TextChars, n) : n \in 1..MaxTextLen}
        \cup {WordsText(n) : n \in 0..MaxMatches}
        \cup {TailText(tail) :
                 tail \in UNION {SeqsOver({120, 233, 32}, n) : n \in 1..MaxTailLen}}

\* Hopper::word(), Hopper::line(), Hopper::with_regex("[^\n]")
Regexes == {"word", "line", "char"}

Init ==
    /\ regex \in Regexes
    /\ ranges = << >>
    /\ seq = << >>
    /\ text \in Texts
    /\ (Len(text) > MaxTextLen + 1 => regex = "word")
    /\ tags = {OtherTag}
    /\ main = [start |-> 0, end |-> 0]
    /\ extras \in BOOLEAN
    /\ errors = 0
    /\ pc = "idle"
    /\ keys = 0
    /\ lastKey = NoKey
    /\ resets = 0
    /\ moves = 0
    /\ len = 0
    /\ seqs = << >>
    /\ sessions = 1

\* on_switch
OnSwitch ==
    /\ pc = "idle"
    /\ \E off \in {Offsets(text)} :
       \E rs \in {Search(regex, text, off)} :
       \E labels \in {key_seqs(Len(rs))} :
           /\ ranges' = rs
           /\ tags' = (tags \cup {CloakTag(text, off)})
                 \cup {GhostTag(rs[i], labels[i]) : i \in 1..ZipLen(labels, rs)}
                 \cup {ConcealTag(text, off, rs[i], labels[i]) :
                          i \in 1..ZipLen(labels, rs)}
    /\ pc' = "awaiting"
    /\ UNCHANGED <<regex, seq, text, main, extras, errors, keys, lastKey,
                   resets, moves, len, seqs, sessions>>

MustExit_three(s, c) == Len(s) = 3 \/ ~LettersContains(c)
MustExit_lenonly(s, c) == Len(s) = 2
MustExit_always(s, c) == TRUE

\* if self.seq.chars().count() == 2 || !LETTERS.contains(char)
MustExit(s, c) == Len(s) = 2 \/ ~LettersContains(c)

\* seq.starts_with(&self.seq)
starts_with(label, s) == Len(s) <= Len(label) /\ SubSeq(label, 1, Len(s)) = s

LoopBody_hitkeeps(label, r, s, st) ==
    IF label = s
    THEN [st EXCEPT !.main = r, !.resets = @ + 1, !.moves = @ + 1]
    ELSE IF starts_with(label, s)
    THEN st
    ELSE [st EXCEPT !.tags = RemoveTagsAt(st.tags, "TAGGER", r.start)]

LoopBody_prefixhit(label, r, s, st) ==
    IF ~starts_with(label, s)
    THEN [st EXCEPT !.tags = RemoveTagsAt(st.tags, "TAGGER", r.start)]
    ELSE [main   |-> r,
          resets |-> IF label = s THEN st.resets + 1 ELSE st.resets,
          moves  |-> st.moves + 1,
          tags   |-> IF label = s
                     THEN RemoveTagsAt(st.tags, "TAGGER", r.start)
                     ELSE st.tags]

\* One iteration of the loop of send_key over (seq, r), on the state st =
\* [main, tags, resets, moves]; s is self.seq.
LoopBody(label, r, s, st) ==
    IF label # s /\ starts_with(label, s)
    THEN st
    ELSE LET hit == (label = s)
         IN  [main   |-> IF hit THEN r ELSE st.main,
              resets |-> IF hit THEN st.resets + 1 ELSE st.resets,
              moves  |-> IF hit THEN st.moves + 1 ELSE st.moves,
              tags   |-> RemoveTagsAt(st.tags, "TAGGER", r.start)]

\* for (seq, r) in seqs.iter().zip(&self.ranges) { ... }: the iterations
\* lo..hi in order (halving the interval; the lower half is evaluated
\* before the upper half starts)
RECURSIVE Loop(_, _, _, _, _, _)
Loop(labels, rs, s, lo, hi, st) ==
    IF lo > hi THEN st
    ELSE IF lo = hi THEN LoopBody(labels[lo], rs[lo], s, st)
    ELSE LET mid == (lo + hi) \div 2
             lower == Loop(labels, rs, s, lo, mid, st)
         IN  IF lower.resets >= 0
             THEN Loop(labels, rs, s, mid + 1, hi, lower)
             ELSE lower

\* send_key
SendKey(k) ==
    /\ pc = "awaiting"
    /\ keys' = keys + 1
    /\ lastKey' = k
    /\ IF k.code # "Char"
       THEN /\ errors' = errors + 1
            /\ resets' = 1
            /\ pc' = "exiting"
            /\ UNCHANGED <<seq, extras, main, tags, moves>>
       ELSE \E s \in {Append(seq, k.c)} :
            \E labels \in {key_seqs(Len(ranges))} :
            \E st \in {Loop(labels, ranges, s, 1, ZipLen(labels, ranges),
                            [main |-> main, tags |-> tags, resets |-> 0,
                             moves |-> moves])} :
            \E n \in {st.resets + (IF MustExit(s, k.c) THEN 1 ELSE 0)} :
                /\ seq' = s
                /\ extras' = FALSE
                /\ main' = st.main
                /\ tags' = st.tags
                /\ moves' = st.moves
                /\ resets' = n
                /\ pc' = IF n > 0 THEN "exiting" ELSE "awaiting"
                /\ UNCHANGED errors
    /\ UNCHANGED <<regex, ranges, text, len, seqs, sessions>>

ExitTags_keepcloak(tg) == RemoveAllTags(tg, "TAGGER")

\* text.remove_tags(*TAGGER, ..); text.remove_tags(*CLOAK_TAGGER, ..);
ExitTags(tg) == RemoveAllTags(RemoveAllTags(tg, "TAGGER"), "CLOAK_TAGGER")

\* before_exit, run when the mode that mode::reset asked for takes over
BeforeExit ==
    /\ pc = "exiting"
    /\ tags' = ExitTags(tags)
    /\ pc' = "exited"
    /\ UNCHANGED <<regex, ranges, seq, text, main, extras, errors, keys,
                   lastKey, resets, moves, len, seqs, sessions>>

NewHopper_reused(re) == [regex |-> re, ranges |-> ranges, seq |-> seq]

\* Hopper::word(), Hopper::line(), Hopper::with_regex(re): the value that
\* mode::map stores, a clone of which is the mode of each session
NewHopper(re) == [regex |-> re, ranges |-> << >>, seq |-> << >>]

\* The text a later session finds: the same, or the text less its first two
\* characters.
Edits(t) == {t, Skip(t, 2)}

\* The mapped key is pressed again after the mode was left, the text perhaps
\* edited and the main selection put back at the start of the text: the
\* mode is set to a clone of the mapped Hopper, and on_switch will run on it.
\* Later sessions are followed on the texts of words, not on the short texts.
Reenter ==
    /\ pc = "exited"
    /\ sessions < MaxSessions
    /\ Len(text) > MaxTextLen + 1
    /\ sessions' = sessions + 1
    /\ \E h \in {NewHopper(regex)} :
           /\ regex' = h.regex
           /\ ranges' = h.ranges
           /\ seq' = h.seq
    /\ text' \in Edits(text)
    /\ pc' = "idle"
    /\ keys' = 0
    /\ lastKey' = NoKey
    /\ resets' = 0
    /\ moves' = 0
    /\ errors' = 0
    /\ main' = [start |-> 0, end |-> 0]
    /\ UNCHANGED <<tags, extras, len, seqs>>

Next ==
    \/ OnSwitch
    \/ \E k \in KeyEvents : SendKey(k)
    \/ BeforeExit
    \/ Reenter

Spec == Init /\ [][Next]_vars

-----------------------------------------------------------------------------
(* Properties of a session *)

\* Mode exit has been requested (and perhaps carried out).
Ended == pc \in {"exiting", "exited"}

\* The overlays of the two channels of the mode that the text holds.
Overlays == {x \in tags : x.tagger \in {"TAGGER", "CLOAK_TAGGER"}}
LabelOverlays == {x \in tags : x.tagger = "TAGGER"}

\* The accumulator equals, or is a prefix of, the label of some match.
Viable ==
    \E labels \in {key_seqs(Len(ranges))} :
        \E i \in 1..ZipLen(labels, ranges) : starts_with(labels[i], seq)

\* The key is a character key with a letter (char::is_alphabetic).
PlainAlphabetic(k) ==
    k.code = "Char" /\ (k.c \in 65..90 \/ k.c \in 97..122)

\* The key is a character key with one of the 26 lowercase letters.
LowercaseLetter(k) == k.code = "Char" /\ k.c \in 97..122

\* C1 (as claimed): in a session entered on k matches, every match i < k is
\* labelled key_seqs(k)[i], and once exactly the characters of that label
\* have been typed the main selection is the span of match i, moved there
\* once, and mode exit has been requested.
C1_RoundTrip ==
    pc \in {"awaiting", "exiting", "exited"} =>
        \A labels \in {key_seqs(Len(ranges))} :
            \A i \in 1..Len(ranges) :
                /\ i <= Len(labels)
                /\ (keys = Len(seq) /\ seq = labels[i]) =>
                       (Ended /\ main = ranges[i] /\ moves = 1)

\* C4: mode exit is requested no later than the second key event, and the
\* accumulator never holds more than 2 characters.
C4_AtMostTwoKeys ==
    /\ keys >= 2 => Ended
    /\ keys <= 2
    /\ Len(seq) <= 2

\* C4 witness: a session forced to end by its second keystroke, which
\* resolved no match.
C4_Witness == Ended /\ keys = 2 /\ Len(seq) = 2 /\ moves = 0

\* C5: once before_exit has run, no overlay of TAGGER or CLOAK_TAGGER
\* remains, and running the removal again changes nothing.
C5_NoOverlayAfterExit ==
    pc = "exited" => (Overlays = {} /\ ExitTags(tags) = tags)

\* C5 witness: a session with two-letter labels that ended on its second
\* keystroke, the first having retracted part of the overlays.
C5_Witness ==
    pc = "exited" /\ keys = 2 /\ Len(ranges) > 26 /\ OtherTag \in tags

\* C6 (as claimed): a keystroke that is not a plain alphabetic character
\* reports an input error, requests mode exit, is not appended to the
\* accumulator, and no overlay remains after exit.
C6_AbortOnNonAlphabetic ==
    (keys >= 1 /\ ~PlainAlphabetic(lastKey)) =>
        /\ errors = 1
        /\ Ended
        /\ Len(seq) = keys - 1
        /\ pc = "exited" => Overlays = {}

\* C6 (amended): a keystroke that is not a character key reports an input
\* error, requests mode exit and is not appended to the accumulator; a
\* character that is not one of the 26 lowercase letters requests mode exit
\* too, but is appended to the accumulator and reports no error; in both
\* cases no overlay remains after exit.
C6_Amended ==
    /\ (keys >= 1 /\ lastKey.code # "Char") =>
           /\ errors = 1
           /\ Ended
           /\ Len(seq) = keys - 1
           /\ pc = "exited" => Overlays = {}
    /\ (keys >= 1 /\ lastKey.code = "Char" /\ ~LowercaseLetter(lastKey)) =>
           /\ errors = 0
           /\ Ended
           /\ Len(seq) = keys
           /\ seq[Len(seq)] = lastKey.c
           /\ pc = "exited" => Overlays = {}

\* C6 witness: a session that exited on a digit typed as second keystroke.
C6_Witness ==
    pc = "exited" /\ keys = 2 /\ lastKey = [code |-> "Char", c |-> 49]

\* C7 (as claimed): a keystroke after which the accumulator neither equals
\* nor is a prefix of an assigned label ends the session on that keystroke.
C7_NonMatchingKeyEnds ==
    (keys >= 1 /\ ~Viable) => Ended

\* C7 (amended): such a keystroke ends the session on that keystroke when it
\* completes two characters or is not a lowercase letter; a first
\* keystroke that is a lowercase letter assigned to no match leaves the
\* session awaiting, and the next keystroke ends it.
C7_Amended ==
    (keys >= 1 /\ ~Viable) =>
        /\ (Len(seq) = 2 \/ ~LowercaseLetter(lastKey)) => Ended
        /\ (keys = 1 /\ LowercaseLetter(lastKey)) => pc = "awaiting"
        /\ keys >= 2 => Ended

\* C7 witness: the session still awaits after a first lowercase letter that
\* is assigned to none of its matches.
C7_Witness ==
    pc = "awaiting" /\ keys = 1 /\ Len(ranges) >= 1 /\ ~Viable

\* C8 (as claimed): with zero matches the session enters with the backdrop
\* and no per-match overlay, and ends on the first keystroke, whatever it
\* is.
C8_ZeroMatchesEndOnFirstKey ==
    (pc # "idle" /\ Len(ranges) = 0) =>
        /\ keys = 0 => (pc = "awaiting" /\ LabelOverlays = {}
                          /\ \E x \in tags : x.tagger = "CLOAK_TAGGER")
        /\ keys >= 1 => Ended

\* C8 (amended): with zero matches the session enters with the backdrop and
\* no per-match overlay; it ends on the first keystroke when that is not a
\* lowercase letter, and otherwise on the second keystroke.
C8_Amended ==
    (pc # "idle" /\ Len(ranges) = 0) =>
        /\ keys = 0 => (pc = "awaiting" /\ LabelOverlays = {}
                          /\ \E x \in tags : x.tagger = "CLOAK_TAGGER")
        /\ (keys = 1 /\ ~LowercaseLetter(lastKey)) => Ended
        /\ (keys = 1 /\ LowercaseLetter(lastKey)) => pc = "awaiting"
        /\ keys >= 2 => Ended

\* C8 witness: a session without matches that ended on its second
\* keystroke.
C8_Witness == Len(ranges) = 0 /\ pc = "exited" /\ keys = 2

-----------------------------------------------------------------------------
(* key_seqs on its own *)

\* The arguments: every small count, and the counts at which skip(double)
\* and take(double) run off the end of LETTERS.
Lens == (0..MaxLen) \cup {Len(LETTERS) * d : d \in 25..MaxDouble}

InitSeqs ==
    /\ len \in Lens
    /\ seqs = << >>
    /\ regex = "word" /\ ranges = << >> /\ seq = << >>
    /\ text = <<10>> /\ tags = {} /\ main = [start |-> 0, end |-> 0]
    /\ extras = FALSE /\ errors = 0 /\ pc = "idle" /\ keys = 0
    /\ lastKey = NoKey /\ resets = 0 /\ moves = 0 /\ sessions = 1

CallKeySeqs ==
    /\ pc = "idle"
    /\ pc' = "called"
    /\ seqs' = key_seqs(len)
    /\ UNCHANGED <<regex, ranges, seq, text, tags, main, extras, errors, keys,
                   lastKey, resets, moves, len, sessions>>

NextSeqs == CallKeySeqs

SpecSeqs == InitSeqs /\ [][NextSeqs]_vars

-----------------------------------------------------------------------------
(* Properties of key_seqs *)

IsPrefix(p, s) == Len(p) <= Len(s) /\ SubSeq(s, 1, Len(p)) = p

\* The 26 one-letter labels a..z, the 25 one-letter labels b..z and the 26
\* two-letter labels aa..az, written out.
Labels_a_z == [i \in 1..26 |-> <<96 + i>>]
Labels_b_z == [i \in 1..25 |-> <<97 + i>>]
Labels_aa_az == [i \in 1..26 |-> <<97, 96 + i>>]

\* C2 (as claimed): for every n >= 0, key_seqs(n) returns at least n labels,
\* i.e. (26 - double) + double * 26 >= n with double = n / 26.
C2_AtLeastLenLabels ==
    pc = "called" =>
        /\ Len(seqs) >= len
        /\ (26 - (len \div 26)) + (len \div 26) * 26 >= len

\* C3: the labels of key_seqs(n) are all distinct, each is 1 or 2 lowercase
\* letters long, and no label is a proper prefix of another label of the
\* list (no one-letter label starts a two-letter label).
C3_DistinctPrefixFree ==
    pc = "called" =>
        /\ \A i \in 1..Len(seqs) :
              /\ Len(seqs[i]) \in {1, 2}
              /\ \A k \in 1..Len(seqs[i]) : seqs[i][k] \in 97..122
        /\ \A i, j \in 1..Len(seqs) :
              i # j => seqs[i] # seqs[j] /\ ~IsPrefix(seqs[i], seqs[j])

\* C3 witness: a computed list that holds one-letter and two-letter labels.
C3_Witness ==
    /\ pc = "called"
    /\ \E i, j \in 1..Len(seqs) : Len(seqs[i]) = 1 /\ Len(seqs[j]) = 2

\* C9 (as claimed): key_seqs(26) consists only of one-letter labels and
\* covers the alphabet a..z exactly once.
C9_OnlyOneLetterAt26 ==
    (pc = "called" /\ len = 26) => seqs = Labels_a_z

\* C9 (amended): key_seqs(26) is b..z followed by aa..az (double = 1); it is
\* for every n < 26 that key_seqs(n) is exactly the one-letter labels a..z.
C9_Amended ==
    pc = "called" =>
        /\ len = 26 => seqs = Labels_b_z \o Labels_aa_az
        /\ len < 26 => seqs = Labels_a_z

\* C9 witness: key_seqs(26) has been computed.
C9_Witness == pc = "called" /\ len = 26 /\ Len(seqs) = 51

\* C10 (as claimed): key_seqs(27) is b..z then aa..az, with (0-based) label 0
\* = b, label 25 = z and label 26 = aa.
C10_LabelsAt27 ==
    (pc = "called" /\ len = 27) =>
        /\ seqs = Labels_b_z \o Labels_aa_az
        /\ seqs[0 + 1] = <<98>>
        /\ seqs[25 + 1] = <<122>>
        /\ seqs[26 + 1] = <<97, 97>>

\* C10 (amended): key_seqs(27) is b..z then aa..az, with (0-based) label 0 =
\* b, label 24 = z and label 25 = aa.
C10_Amended ==
    (pc = "called" /\ len = 27) =>
        /\ seqs = Labels_b_z \o Labels_aa_az
        /\ seqs[0 + 1] = <<98>>
        /\ seqs[24 + 1] = <<122>>
        /\ seqs[25 + 1] = <<97, 97>>

\* C10 witness: key_seqs(27) has been computed.
C10_Witness == pc = "called" /\ len = 27 /\ Len(seqs) = 51

\* The ghost overlay that shows label l at the start of range r is held.
HasGhost(r, l) ==
    \E x \in tags :
        /\ x.tagger = "TAGGER" /\ x.kind = "ghost"
        /\ x.start = r.start /\ x.label = l

\* C11 (as claimed): on entry the matches are in document order and match i
\* shows the i-th label of key_seqs(number of matches); with 30 matches,
\* match 0 shows b and match 25 shows aa.
C11_OrdinalLabels ==
    (pc = "awaiting" /\ keys = 0) =>
        \A labels \in {key_seqs(Len(ranges))} :
            /\ \A i \in 1..(Len(ranges) - 1) : ranges[i].end <= ranges[i + 1].start
            /\ \A i \in 1..Len(ranges) :
                  i <= Len(labels) /\ HasGhost(ranges[i], labels[i])
            /\ Len(ranges) = 30 =>
                  /\ HasGhost(ranges[0 + 1], <<98>>)
                  /\ HasGhost(ranges[25 + 1], <<97, 97>>)

\* The conceal overlay that starts at the start of range r is held.
HasConceal(r) ==
    \E x \in tags :
        x.tagger = "TAGGER" /\ x.kind = "conceal" /\ x.start = r.start

\* C12 (as claimed): while the session awaits a key, the matches that carry
\* their ghost and conceal overlays are exactly the matches whose label has
\* the accumulator as a prefix.
C12_CandidateSet ==
    pc = "awaiting" =>
        \A labels \in {key_seqs(Len(ranges))} :
            \A i \in 1..Len(ranges) :
                (i <= Len(labels) /\ starts_with(labels[i], seq))
                    <=> (i <= Len(labels) /\ HasGhost(ranges[i], labels[i])
                           /\ HasConceal(ranges[i]))

\* The conceal overlays that start at the start of range r.
ConcealsAt(r) ==
    {x \in tags : x.tagger = "TAGGER" /\ x.kind = "conceal" /\ x.start = r.start}

\* The characters (by index) of the text that start inside [b, e), given
\* the byte offsets off of the characters.
CharsIn(off, b, e) == {k \in 1..Len(text) : b <= off[k] /\ off[k] < e}

C14_NoTruncation ==
    (pc = "awaiting" /\ keys = 0) =>
        \A labels \in {key_seqs(Len(ranges))} :
            /\ Len(labels) >= Len(ranges)
            /\ Cardinality({ranges[i].start : i \in 1..Len(ranges)})
                  = Cardinality({x \in tags : x.tagger = "TAGGER" /\ x.kind = "ghost"})
            /\ Cardinality({x.label : x \in {y \in tags : y.kind = "ghost"}})
                  = Len(ranges)
            /\ \A i \in 1..Len(ranges) : ConcealsAt(ranges[i]) # {}

\* The matches (by index) whose assigned label equals s.
Resolved(s) ==
    LET labels == key_seqs(Len(ranges))
    IN  {i \in 1..ZipLen(labels, ranges) : labels[i] = s}

\* C15: a keystroke after which the accumulator equals no assigned label
\* leaves the main selection unchanged; a keystroke that completes a label
\* sets it to the span of the one match with that label; nothing else
\* changes it, and it is moved at most once in a session.
C15_MainOnlyOnResolution ==
    [][\A hit \in {Resolved(seq')} :
          /\ (keys' = keys + 1 /\ hit = {}) => (main' = main /\ moves' = moves)
          /\ (keys' = keys + 1 /\ hit # {}) =>
                 /\ Cardinality(hit) = 1
                 /\ \A i \in hit : main' = ranges[i]
                 /\ moves' = moves + 1
          /\ keys' = keys => (main' = main /\ moves' = moves)
          /\ moves' <= 1]_vars

\* C15 witness: the main selection sits on the match whose two-letter label
\* was typed.
C15_Witness ==
    /\ moves = 1 /\ Len(seq) = 2
    /\ \E i \in Resolved(seq) : main = ranges[i]

\* C16 (as claimed): with the word pattern, no conceal overlay installed on
\* entry covers a newline.
C16_ConcealSparesNewline ==
    (pc = "awaiting" /\ keys = 0 /\ regex = "word") =>
        \A off \in {Offsets(text)} :
            \A x \in {y \in tags : y.tagger = "TAGGER" /\ y.kind = "conceal"} :
                \A k \in CharsIn(off, x.start, x.end) : text[k] # 10


\* The overlays of the label channel anchored at the start of a match.
OverlaysAt(r) == {x \in tags : x.tagger = "TAGGER" /\ x.start = r.start}

\* C17 (as claimed): the conceal span of a match neither covers nor ends at
\* the start of another match, and while keys are awaited every match whose
\* label the accumulator is a prefix of still has its ghost and its conceal
\* overlay, every other match having neither.
C17_RetractOnlyThatMatch ==
    pc = "awaiting" =>
        \A labels \in {key_seqs(Len(ranges))} :
            \A i \in 1..ZipLen(labels, ranges) :
                /\ \A x \in ConcealsAt(ranges[i]) :
                       \A j \in 1..Len(ranges) :
                           j # i => ~(x.start < ranges[j].start
                                         /\ ranges[j].start <= x.end)
                /\ IF starts_with(labels[i], seq)
                   THEN {x.kind : x \in OverlaysAt(ranges[i])}
                            = {"ghost", "conceal"}
                   ELSE OverlaysAt(ranges[i]) = {}


\* The state of the loop of send_key when it reaches iteration i: the
\* iterations before i have run on the state the keystroke found.
LoopUpTo(i, s) ==
    Loop(key_seqs(Len(ranges)), ranges, s, 1, i - 1,
         [main |-> main, tags |-> tags, resets |-> 0, moves |-> moves])

\* C18 (as claimed): in a keystroke that completes the label of a match, the
\* overlays the text holds afterwards are those it held when the loop
\* reached that match, and mode exit is requested exactly once.
C18_ResolvedTerminal ==
    [][\A hit \in {Resolved(seq')} :
          (keys' = keys + 1 /\ lastKey'.code = "Char" /\ hit # {}) =>
              /\ \A i \in hit : tags' = LoopUpTo(i, seq').tags
              /\ resets' = 1]_vars

\* C18 (amended): a keystroke that completes the label of a match only
\* removes overlays: after it neither the resolved match nor any match whose
\* label the accumulator is not a prefix of has an overlay of the label
\* channel at its start, the tags of other taggers and the backdrop are
\* kept, and mode exit is requested once for a one-letter label and twice
\* for a two-letter label.
C18_Amended ==
    [][\A hit \in {Resolved(seq')} :
          (keys' = keys + 1 /\ lastKey'.code = "Char" /\ hit # {}) =>
              /\ tags' \subseteq tags
              /\ {x \in tags : x.tagger # "TAGGER"} \subseteq tags'
              /\ \A labels \in {key_seqs(Len(ranges))} :
                     \A j \in 1..ZipLen(labels, ranges) :
                         (j \in hit \/ ~starts_with(labels[j], seq')) =>
                             \A x \in tags' :
                                 ~(x.tagger = "TAGGER"
                                      /\ x.start = ranges[j].start)
              /\ resets' = (IF Len(seq') = 2 THEN 2 ELSE 1)
              /\ pc' = "exiting"]_vars

\* C18 witness: a keystroke completed a two-letter label, moved the main
\* selection, retracted the overlays of the resolved match and requested
\* mode exit twice; the backdrop is still in place.
C18_Witness ==
    /\ pc = "exiting" /\ resets = 2 /\ moves = 1
    /\ Resolved(seq) # {}
    /\ LabelOverlays = {}
    /\ Overlays # {}


\* C19: a mode that has not been entered yet has an empty accumulator and
\* an empty match list; in every session, the first one and a later one
\* alike, when the first keystroke is awaited the match list is the result
\* of the search on the text as it is now and the accumulator is empty, and
\* from then on the accumulator holds the characters typed in this session
\* only.
C19_FreshSession ==
    /\ pc = "idle" => (seq = << >> /\ ranges = << >>)
    /\ (pc = "awaiting" /\ keys = 0) =>
           /\ seq = << >>
           /\ \A off \in {Offsets(text)} : ranges = Search(regex, text, off)
    /\ Len(seq) <= keys

\* C19 witness: a second session, on a text that gives two-letter labels,
\* awaits its first keystroke with an empty accumulator.
C19_Witness ==
    /\ sessions = 2 /\ pc = "awaiting" /\ keys = 0
    /\ seq = << >>
    /\ Len(ranges) > Len(LETTERS)

====
